---------------------------- MODULE Spec2Model ----------------------------
(***************************************************************************)
(* A model of scripts/deduplicate.py: the proxy-subscription deduplicator. *)
(*                                                                         *)
(* Text is modelled as Python models it: a str is a sequence of code       *)
(* points (naturals), a bytes object a sequence of 0..255.  Every          *)
(* conversion of the program (base64, UTF-8, percent-decoding, URL         *)
(* splitting, JSON serialisation) is computed on those sequences.          *)
(***************************************************************************)
EXTENDS Integers, Sequences, FiniteSets, TLC

(***************************************************************************)
(* Characters                                                              *)
(***************************************************************************)
\* The printable ASCII characters, code points 32..126, in order (the
\* backtick, which a TLA+ string cannot hold, is a placeholder).
Printable ==
  << " ", "!", "\"", "#", "$", "%", "&", "'", "(", ")", "*", "+", ",", "-", ".", "/",
     "0", "1", "2", "3", "4", "5", "6", "7", "8", "9", ":", ";", "<", "=", ">", "?",
     "@", "A", "B", "C", "D", "E", "F", "G", "H", "I", "J", "K", "L", "M", "N", "O",
     "P", "Q", "R", "S", "T", "U", "V", "W", "X", "Y", "Z", "[", "\\", "]", "^", "_",
     "(backtick)", "a", "b", "c", "d", "e", "f", "g", "h", "i", "j", "k", "l", "m", "n", "o",
     "p", "q", "r", "s", "t", "u", "v", "w", "x", "y", "z", "{", "|", "}", "~" >>

\* The code point of a printable character.
Ord(c) == 31 + (CHOOSE i \in 1..Len(Printable) : Printable[i] = c)

\* A str literal: the code points of a tuple of one-character strings.
Str(t) == [i \in 1..Len(t) |-> Ord(t[i])]

NL == 10

IsUpper(c) == c >= 65 /\ c <= 90
IsLower(c) == c >= 97 /\ c <= 122
IsDigit(c) == c >= 48 /\ c <= 57
IsAlpha(c) == IsUpper(c) \/ IsLower(c)

\* str.lower(), on the ASCII letters (other code points are left as they are).
Lower(s) == [i \in 1..Len(s) |-> IF IsUpper(s[i]) THEN s[i] + 32 ELSE s[i]]

Min(S) == CHOOSE x \in S : \A y \in S : x <= y
Max(S) == CHOOSE x \in S : \A y \in S : x >= y

\* The elements of a finite set of integers, ascending.
SortedSeq(S) ==
  [k \in 1..Cardinality(S) |-> CHOOSE x \in S : Cardinality({y \in S : y < x}) = k - 1]

\* The concatenation of a sequence of sequences.
RECURSIVE Flatten(_)
Flatten(parts) ==
  IF parts = <<>> THEN <<>>
  ELSE IF Len(parts) = 1 THEN parts[1]
  ELSE LET h == Len(parts) \div 2 IN
       Flatten(SubSeq(parts, 1, h)) \o Flatten(SubSeq(parts, h + 1, Len(parts)))

\* Python's str ordering: lexicographic on code points.
TextLess(a, b) ==
  LET n == IF Len(a) < Len(b) THEN Len(a) ELSE Len(b)
      diff == {i \in 1..n : a[i] # b[i]}
  IN IF diff = {} THEN Len(a) < Len(b) ELSE a[Min(diff)] < b[Min(diff)]

\* The indices (1-based) where sub occurs in s.
Occurrences(s, sub) ==
  {i \in 1..(Len(s) - Len(sub) + 1) : SubSeq(s, i, i + Len(sub) - 1) = sub}

\* str.find(sub): the first index where sub occurs in s, or 0.
Find(s, sub) == IF Occurrences(s, sub) = {} THEN 0 ELSE Min(Occurrences(s, sub))
Contains(s, sub) == Occurrences(s, sub) # {}

\* str.rfind(sub): the last index where sub occurs in s, or 0.
RFind(s, sub) == IF Occurrences(s, sub) = {} THEN 0 ELSE Max(Occurrences(s, sub))

\* str.split(sep): every piece, as a sequence of texts.
RECURSIVE Split(_, _)
Split(s, sep) ==
  LET i == Find(s, sep) IN
  IF i = 0 THEN <<s>>
  ELSE <<SubSeq(s, 1, i - 1)>> \o Split(SubSeq(s, i + Len(sep), Len(s)), sep)

\* str.split(sep, 1): at most two pieces.
Split1(s, sep) ==
  LET i == Find(s, sep) IN
  IF i = 0 THEN <<s>>
  ELSE <<SubSeq(s, 1, i - 1), SubSeq(s, i + Len(sep), Len(s))>>

\* str.replace(old, new) for a single character.
ReplaceChar(s, old, new) == [i \in 1..Len(s) |-> IF s[i] = old THEN new ELSE s[i]]

\* str.replace(old, '') : every occurrence of old removed, left to right.
RECURSIVE Remove(_, _)
Remove(s, old) ==
  LET i == Find(s, old) IN
  IF i = 0 THEN s
  ELSE SubSeq(s, 1, i - 1) \o Remove(SubSeq(s, i + Len(old), Len(s)), old)

\* The characters str.strip() removes: Python's whitespace.
IsSpace(c) == c \in {9, 10, 11, 12, 13, 28, 29, 30, 31, 32, 133, 160}

Strip(s) ==
  LET keep == {i \in 1..Len(s) : ~IsSpace(s[i])} IN
  IF keep = {} THEN <<>> ELSE SubSeq(s, Min(keep), Max(keep))

\* The line boundaries of str.splitlines().
IsLineBreak(c) == c \in {10, 11, 12, 13, 28, 29, 30, 133, 8232, 8233}

\* str.splitlines(): "\r\n" is one boundary, and there is no empty last line.
SplitLines(s) ==
  LET starts == {i \in 1..Len(s) :
                   IsLineBreak(s[i]) /\ ~(s[i] = 10 /\ i > 1 /\ s[i - 1] = 13)}
      brk == SortedSeq(starts)
      after(k) == IF s[brk[k]] = 13 /\ brk[k] < Len(s) /\ s[brk[k] + 1] = 10
                  THEN brk[k] + 2 ELSE brk[k] + 1
      first(k) == IF k = 1 THEN 1 ELSE after(k - 1)
      body == [k \in 1..Len(brk) |-> SubSeq(s, first(k), brk[k] - 1)]
      rest == IF brk = <<>> THEN s ELSE SubSeq(s, after(Len(brk)), Len(s))
  IN IF rest = <<>> THEN body ELSE Append(body, rest)

\* sep.join(parts)
RECURSIVE Join(_, _)
Join(parts, sep) ==
  IF parts = <<>> THEN <<>>
  ELSE IF Len(parts) = 1 THEN parts[1]
  ELSE parts[1] \o sep \o Join(Tail(parts), sep)

(***************************************************************************)
(* base64 and UTF-8                                                        *)
(***************************************************************************)
\* binascii's table_a2b_base64: the 6-bit value of a character, 64 if none.
B64Val(c) ==
  IF IsUpper(c) THEN c - 65
  ELSE IF IsLower(c) THEN c - 97 + 26
  ELSE IF IsDigit(c) THEN c - 48 + 52
  ELSE IF c = 43 THEN 62
  ELSE IF c = 47 THEN 63
  ELSE 64

\* The bytes that a sequence of 6-bit values spells, whole bytes only.
SixToEight(v) ==
  [j \in 1..((Len(v) * 6) \div 8) |->
     LET i == (((j - 1) * 8) \div 6) + 1
         off == ((j - 1) * 8) % 6
     IN CASE off = 0 -> v[i] * 4 + (v[i + 1] \div 16)
          [] off = 2 -> (v[i] % 16) * 16 + (v[i + 1] \div 4)
          [] OTHER   -> (v[i] % 4) * 64 + v[i + 1]]

\* binascii.a2b_base64 without validation, as base64.b64decode calls it:
\* characters outside the alphabet are skipped; a '=' that completes the
\* padding of an unfinished quad (2 or 3 characters into it) ends the
\* input; data left in an unfinished quad at the end is an error.
a2b_base64(s) ==
  LET alpha(i) == B64Val(s[i]) < 64
      quad(i) == Cardinality({j \in 1..(i - 1) : alpha(j)}) % 4
      last(i) == Max({0} \cup {j \in 1..(i - 1) : alpha(j)})
      pads(i) == Cardinality({j \in (last(i) + 1)..i : s[j] = 61})
      stops == {i \in 1..Len(s) : s[i] = 61 /\ quad(i) >= 2 /\ quad(i) + pads(i) >= 4}
      end == IF stops = {} THEN Len(s) ELSE Min(stops)
      data == SelectSeq(SubSeq(s, 1, end), LAMBDA c : B64Val(c) < 64)
      vals == [i \in 1..Len(data) |-> B64Val(data[i])]
  IN IF stops = {} /\ Len(data) % 4 # 0 THEN [ok |-> FALSE, bytes |-> <<>>]
     ELSE [ok |-> TRUE, bytes |-> SixToEight(vals)]

\* base64.b64decode(s) for a str s: s.encode('ascii') must succeed first.
b64decode(s) ==
  IF \E i \in 1..Len(s) : s[i] > 127 THEN [ok |-> FALSE, bytes |-> <<>>]
  ELSE a2b_base64(s)

Pad(n) == [i \in 1..n |-> 61]

safe_b64decode(s) ==
  LET t == ReplaceChar(ReplaceChar(s, 45, 43), 95, 47)
      padding == Len(t) % 4
  IN b64decode(IF padding # 0 THEN t \o Pad(4 - padding) ELSE t)

\* The base64 alphabet, by value.
B64Char(v) ==
  IF v < 26 THEN 65 + v
  ELSE IF v < 52 THEN 97 + v - 26
  ELSE IF v < 62 THEN 48 + v - 52
  ELSE IF v = 62 THEN 43 ELSE 47

\* base64.b64encode: how a feed's publisher encodes text (standard alphabet,
\* padded).
b64encode(b) ==
  LET at(i) == IF i <= Len(b) THEN b[i] ELSE 0 IN
  [k \in 1..(4 * ((Len(b) + 2) \div 3)) |->
     LET g == 3 * ((k - 1) \div 4)
         r == (k - 1) % 4
     IN CASE r = 0 -> B64Char(at(g + 1) \div 4)
          [] r = 1 -> B64Char((at(g + 1) % 4) * 16 + (at(g + 2) \div 16))
          [] r = 2 -> IF g + 2 > Len(b) THEN 61
                      ELSE B64Char((at(g + 2) % 16) * 4 + (at(g + 3) \div 64))
          [] OTHER -> IF g + 3 > Len(b) THEN 61 ELSE B64Char(at(g + 3) % 64)]

IsCont(b) == b >= 128 /\ b <= 191

At(b, i) == IF i <= Len(b) THEN b[i] ELSE 0 - 1

\* How many bytes of b, from index i, form one well-formed UTF-8 sequence
\* (1..4), or, negated, how many bytes the decoder rejects as one error.
Utf8Step(b, i) ==
  LET b1 == b[i]
      lo2 == IF b1 = 224 THEN 160 ELSE IF b1 = 240 THEN 144 ELSE 128
      hi2 == IF b1 = 237 THEN 159 ELSE IF b1 = 244 THEN 143 ELSE 191
      need == IF b1 < 128 THEN 1
              ELSE IF b1 >= 194 /\ b1 <= 223 THEN 2
              ELSE IF b1 >= 224 /\ b1 <= 239 THEN 3
              ELSE IF b1 >= 240 /\ b1 <= 244 THEN 4
              ELSE 0
  IN IF need = 0 THEN 0 - 1
     ELSE IF need = 1 THEN 1
     ELSE IF At(b, i + 1) < lo2 \/ At(b, i + 1) > hi2 THEN 0 - 1
     ELSE IF need = 2 THEN 2
     ELSE IF ~IsCont(At(b, i + 2)) THEN 0 - 2
     ELSE IF need = 3 THEN 3
     ELSE IF ~IsCont(At(b, i + 3)) THEN 0 - 3
     ELSE 4

\* The code point of the well-formed sequence of k bytes at index i.
Utf8Point(b, i, k) ==
  CASE k = 1 -> b[i]
    [] k = 2 -> (b[i] - 192) * 64 + (b[i + 1] - 128)
    [] k = 3 -> (b[i] - 224) * 4096 + (b[i + 1] - 128) * 64 + (b[i + 2] - 128)
    [] OTHER -> (b[i] - 240) * 262144 + (b[i + 1] - 128) * 4096
                + (b[i + 2] - 128) * 64 + (b[i + 3] - 128)

Abs(n) == IF n < 0 THEN 0 - n ELSE n

\* bytes.decode('utf-8', errors): "strict" (ok is FALSE on a malformed
\* sequence), "ignore" (malformed bytes are dropped) and "replace" (each
\* malformed sequence becomes U+FFFD).  The decoder starts a sequence at
\* every byte that an earlier sequence has not taken; only continuation
\* bytes are ever taken, by the lead byte at most three places before.
Utf8Walk(b, errors) ==
  LET taken(i) == /\ IsCont(b[i])
                  /\ \E p \in (i - 3)..(i - 1) :
                       p >= 1 /\ ~IsCont(b[p]) /\ p + Abs(Utf8Step(b, p)) > i
      piece(i) == LET k == Utf8Step(b, i) IN
                  IF taken(i) THEN <<>>
                  ELSE IF k > 0 THEN <<Utf8Point(b, i, k)>>
                  ELSE IF errors = "replace" THEN <<65533>> ELSE <<>>
  IN [ok |-> errors # "strict" \/ \A i \in 1..Len(b) : taken(i) \/ Utf8Step(b, i) > 0,
      text |-> Flatten([i \in 1..Len(b) |-> piece(i)])]

decode_utf8(b) == Utf8Walk(b, "strict")
decode_utf8_ignore(b) == Utf8Walk(b, "ignore").text
decode_utf8_replace(b) == Utf8Walk(b, "replace").text

\* str.encode('utf-8') for the code points below 2048.
encode_utf8(s) ==
  Flatten([i \in 1..Len(s) |->
    IF s[i] < 128 THEN <<s[i]>> ELSE <<192 + (s[i] \div 64), 128 + (s[i] % 64)>>])

\* safe_b64decode(s).decode('utf-8'): ok is FALSE when either step raises.
text_of(r) == IF ~r.ok THEN [ok |-> FALSE, text |-> <<>>] ELSE decode_utf8(r.bytes)

b64_to_text(s) == text_of(safe_b64decode(s))

(***************************************************************************)
(* Python values: None, str, int, dict (insertion-ordered) and list        *)
(***************************************************************************)
VNone == [t |-> "none", s |-> <<>>, n |-> 0, d |-> <<>>]
VStr(x) == [t |-> "str", s |-> x, n |-> 0, d |-> <<>>]
VInt(x) == [t |-> "int", s |-> <<>>, n |-> x, d |-> <<>>]
\* A dict: its items, [k |-> key text, v |-> value], in insertion order.
VDict(items) == [t |-> "dict", s |-> <<>>, n |-> 0, d |-> items]
VList(elems) == [t |-> "list", s |-> <<>>, n |-> 0, d |-> elems]

Item(key, val) == [k |-> key, v |-> val]
Keys(items) == [i \in 1..Len(items) |-> items[i].k]
KeySet(items) == {items[i].k : i \in 1..Len(items)}

\* key in d
Has(items, key) == \E i \in 1..Len(items) : items[i].k = key

\* d.get(key, dflt)
GetOr(items, key, dflt) ==
  IF Has(items, key)
  THEN items[CHOOSE i \in 1..Len(items) : items[i].k = key].v
  ELSE dflt

\* d.get(key)
Get(items, key) == GetOr(items, key, VNone)

\* d[key] = val: a present key keeps its place, a new key goes last.
Put(items, key, val) ==
  IF Has(items, key)
  THEN [i \in 1..Len(items) |-> IF items[i].k = key THEN Item(key, val) ELSE items[i]]
  ELSE Append(items, Item(key, val))

\* d.setdefault(key, val)
SetDefault(items, key, val) == IF Has(items, key) THEN items ELSE Append(items, Item(key, val))

\* d.update(other), and a dict built from a sequence of items (a dict
\* comprehension, a dict literal): later items overwrite earlier values.
RECURSIVE Update(_, _)
Update(items, other) ==
  IF other = <<>> THEN items
  ELSE Update(Put(items, other[1].k, other[1].v), Tail(other))

MkDict(items) == Update(<<>>, items)

\* bool(v)
Truthy(v) ==
  CASE v.t = "none" -> FALSE
    [] v.t = "str"  -> v.s # <<>>
    [] v.t = "int"  -> v.n # 0
    [] OTHER        -> v.d # <<>>

\* Python's ==, on the values of the model: dicts compare as mappings.
RECURSIVE PyEq(_, _)
PyEq(a, b) ==
  IF a.t # b.t THEN FALSE
  ELSE IF a.t = "dict" THEN
    /\ KeySet(a.d) = KeySet(b.d)
    /\ \A i \in 1..Len(a.d) : PyEq(a.d[i].v, Get(b.d, a.d[i].k))
  ELSE IF a.t = "list" THEN
    /\ Len(a.d) = Len(b.d)
    /\ \A i \in 1..Len(a.d) : PyEq(a.d[i], b.d[i])
  ELSE a = b

(***************************************************************************)
(* int(), str(int)                                                         *)
(***************************************************************************)
\* The number a text of decimal digits spells, above acc * 10^Len(s).
RECURSIVE DigitsValue(_, _)
DigitsValue(s, acc) ==
  IF s = <<>> THEN acc ELSE DigitsValue(Tail(s), acc * 10 + (s[1] - 48))

\* str.isdigit() and str.isascii()
IsAsciiDigits(s) == s # <<>> /\ \A i \in 1..Len(s) : IsDigit(s[i])

\* int(text): surrounding whitespace, one sign, digits with single
\* underscores between them.  ok is FALSE where int raises ValueError.
PyIntBody(body, negative) ==
  LET wellformed ==
        /\ body # <<>>
        /\ IsDigit(body[1]) /\ IsDigit(body[Len(body)])
        /\ \A i \in 1..Len(body) : IsDigit(body[i]) \/ body[i] = 95
        /\ \A i \in 1..(Len(body) - 1) : ~(body[i] = 95 /\ body[i + 1] = 95)
      mag == DigitsValue(Remove(body, <<95>>), 0)
  IN IF ~wellformed THEN [ok |-> FALSE, n |-> 0]
     ELSE [ok |-> TRUE, n |-> IF negative THEN 0 - mag ELSE mag]

PyIntSigned(s) ==
  IF s # <<>> /\ s[1] \in {43, 45} THEN PyIntBody(Tail(s), s[1] = 45)
  ELSE PyIntBody(s, FALSE)

PyInt(text) == PyIntSigned(Strip(text))

RECURSIVE NatText(_)
NatText(n) == IF n < 10 THEN <<48 + n>> ELSE Append(NatText(n \div 10), 48 + (n % 10))

\* str(n)
IntText(n) == IF n < 0 THEN <<45>> \o NatText(0 - n) ELSE NatText(n)

(***************************************************************************)
(* urllib.parse                                                            *)
(***************************************************************************)
IsHex(c) == IsDigit(c) \/ (c >= 65 /\ c <= 70) \/ (c >= 97 /\ c <= 102)
HexVal(c) == IF IsDigit(c) THEN c - 48 ELSE IF c >= 97 THEN c - 87 ELSE c - 55

\* unquote_to_bytes on ASCII text: each %XX with two hex digits is one byte.
unquote_to_bytes(s) ==
  LET esc(i) == i >= 1 /\ i + 2 <= Len(s) /\ s[i] = 37 /\ IsHex(s[i + 1]) /\ IsHex(s[i + 2])
  IN Flatten([i \in 1..Len(s) |->
       IF esc(i) THEN <<HexVal(s[i + 1]) * 16 + HexVal(s[i + 2])>>
       ELSE IF esc(i - 1) \/ esc(i - 2) THEN <<>>
       ELSE <<s[i]>>])

\* The length of the longest prefix of s whose characters are all ASCII
\* (ascii = TRUE) or all non-ASCII (ascii = FALSE).
RunLen(s, ascii) ==
  LET other == {i \in 1..Len(s) : (s[i] < 128) # ascii} IN
  IF other = {} THEN Len(s) ELSE Min(other) - 1

\* urllib.parse.unquote(s): the ASCII runs are percent-decoded to bytes and
\* decoded as UTF-8 with errors='replace'; other characters are kept.
RECURSIVE unquote(_)
unquote(s) ==
  IF ~Contains(s, <<37>>) THEN s
  ELSE LET a == RunLen(s, TRUE)
           r == RunLen(s, FALSE)
       IN IF a > 0
          THEN decode_utf8_replace(unquote_to_bytes(SubSeq(s, 1, a)))
               \o (IF a = Len(s) THEN <<>> ELSE unquote(SubSeq(s, a + 1, Len(s))))
          ELSE SubSeq(s, 1, r)
               \o (IF r = Len(s) THEN <<>> ELSE unquote(SubSeq(s, r + 1, Len(s))))

\* str.partition(sep) and str.rpartition(sep): <<before, found, after>>.
Partition(s, sep) ==
  LET i == Find(s, sep) IN
  IF i = 0 THEN <<s, FALSE, <<>> >>
  ELSE <<SubSeq(s, 1, i - 1), TRUE, SubSeq(s, i + Len(sep), Len(s))>>

RPartition(s, sep) ==
  LET i == RFind(s, sep) IN
  IF i = 0 THEN << <<>>, FALSE, s>>
  ELSE <<SubSeq(s, 1, i - 1), TRUE, SubSeq(s, i + Len(sep), Len(s))>>

\* The characters a URL scheme may hold.
IsSchemeChar(c) == IsAlpha(c) \/ IsDigit(c) \/ c \in {43, 45, 46}

\* The first index at or after 'from' of any of '/', '?', '#', or Len(s)+1.
NetlocEnd(s, from) ==
  Min({Len(s) + 1} \cup {i \in from..Len(s) : s[i] \in {47, 63, 35}})

\* urlsplit(url), which urlparse wraps: ok is FALSE where it raises
\* ValueError (an unbalanced bracket in the netloc).
urlsplit_query(scheme, netloc, q, fragment) ==
  [ok |-> ~(Contains(netloc, <<91>>) # Contains(netloc, <<93>>)),
   scheme |-> scheme,
   netloc |-> netloc,
   path |-> q[1],
   query |-> IF Len(q) = 2 THEN q[2] ELSE <<>>,
   fragment |-> fragment]

\* The split at the first '#', then at the first '?' before it.
urlsplit_fragment(scheme, netloc, f) ==
  urlsplit_query(scheme, netloc, Split1(f[1], <<63>>), IF Len(f) = 2 THEN f[2] ELSE <<>>)

\* The netloc: what follows a leading "//" up to the first of '/', '?', '#'.
urlsplit_netloc(scheme, u1) ==
  LET e == NetlocEnd(u1, 3) IN
  IF Len(u1) >= 2 /\ u1[1] = 47 /\ u1[2] = 47
  THEN urlsplit_fragment(scheme, SubSeq(u1, 3, e - 1), Split1(SubSeq(u1, e, Len(u1)), <<35>>))
  ELSE urlsplit_fragment(scheme, <<>>, Split1(u1, <<35>>))

\* The scheme: the text before the first ':', when it is a letter followed
\* by scheme characters; it is lower-cased.
urlsplit_scheme(u0) ==
  LET i == Find(u0, <<58>>) IN
  IF i > 1 /\ IsAlpha(u0[1]) /\ \A j \in 1..(i - 1) : IsSchemeChar(u0[j])
  THEN urlsplit_netloc(Lower(SubSeq(u0, 1, i - 1)), SubSeq(u0, i + 1, Len(u0)))
  ELSE urlsplit_netloc(<<>>, u0)

urlparse(link) == urlsplit_scheme(Remove(Remove(Remove(link, <<9>>), <<13>>), <<10>>))

\* SplitResult._hostinfo: <<hostname, port>> as texts.
hostinfo_bracketed(inbr) == <<inbr[1], Partition(inbr[3], <<58>>)[3]>>

hostinfo_of(br, plain) ==
  IF br[2] THEN hostinfo_bracketed(Partition(br[3], <<93>>)) ELSE <<plain[1], plain[3]>>

hostinfo_host(h) == hostinfo_of(Partition(h, <<91>>), Partition(h, <<58>>))

hostinfo(p) == hostinfo_host(RPartition(p.netloc, <<64>>)[3])

\* p.hostname: None for an empty host, else lower-cased up to a '%'.
hostname_zone(z) == VStr(Lower(z[1]) \o (IF z[2] THEN <<37>> ELSE <<>>) \o z[3])

hostname_of(h) == IF h = <<>> THEN VNone ELSE hostname_zone(Partition(h, <<37>>))

hostname(p) == hostname_of(hostinfo(p)[1])

\* p.port: None for no port; ok is FALSE where the property raises
\* ValueError (not all digits, or out of 0..65535).
port_of(t) ==
  IF t = <<>> THEN [ok |-> TRUE, v |-> VNone]
  ELSE IF ~IsAsciiDigits(t) \/ DigitsValue(t, 0) > 65535 THEN [ok |-> FALSE, v |-> VNone]
  ELSE [ok |-> TRUE, v |-> VInt(DigitsValue(t, 0))]

port(p) == port_of(hostinfo(p)[2])

\* p.username: None without an '@'.
username_of(r) == IF r[2] THEN VStr(Partition(r[1], <<58>>)[1]) ELSE VNone

username(p) == username_of(RPartition(p.netloc, <<64>>))

\* parse_qs(qs), as the items (name, first value) in the order the names
\* first occur: fields without '=' or with an empty value are dropped, '+'
\* is a space, names and values are unquoted.
parse_qs_item(acc, name, value) ==
  IF Has(acc, name) THEN acc ELSE Append(acc, Item(name, VStr(value)))

parse_qs_field(nv, acc) ==
  IF Len(nv) # 2 \/ nv[2] = <<>> THEN acc
  ELSE parse_qs_item(acc, unquote(ReplaceChar(nv[1], 43, 32)),
                     unquote(ReplaceChar(nv[2], 43, 32)))

RECURSIVE parse_qs_fields(_, _)
parse_qs_fields(fields, acc) ==
  IF fields = <<>> THEN acc
  ELSE parse_qs_fields(Tail(fields), parse_qs_field(Split1(fields[1], <<61>>), acc))

parse_qs(qs) == IF qs = <<>> THEN <<>> ELSE parse_qs_fields(Split(qs, <<38>>), <<>>)

\* {k.lower(): v[0] for k, v in parse_qs(query).items()}
LowerKeys(items) == MkDict([i \in 1..Len(items) |-> Item(Lower(items[i].k), items[i].v)])

(***************************************************************************)
(* json                                                                    *)
(***************************************************************************)
HexDigit(v) == IF v < 10 THEN 48 + v ELSE 87 + v

\* \uXXXX for a code point below 65536.
U4(c) ==
  <<92, 117, HexDigit(c \div 4096), HexDigit((c \div 256) % 16),
    HexDigit((c \div 16) % 16), HexDigit(c % 16)>>

\* json's ESCAPE_ASCII: the escape of one character (ensure_ascii).
JsonEscape(c) ==
  CASE c = 34 -> <<92, 34>>
    [] c = 92 -> <<92, 92>>
    [] c = 10 -> <<92, 110>>
    [] c = 13 -> <<92, 114>>
    [] c = 9  -> <<92, 116>>
    [] c = 8  -> <<92, 98>>
    [] c = 12 -> <<92, 102>>
    [] c >= 32 /\ c <= 126 -> <<c>>
    [] c >= 65536 ->
         U4(55296 + ((c - 65536) \div 1024)) \o U4(56320 + ((c - 65536) % 1024))
    [] OTHER -> U4(c)

JsonString(s) == Flatten([i \in 1..Len(s) |-> JsonEscape(s[i])])

\* json.dumps(v, separators=(',', ':')): the items of a dict in the order
\* given (the caller sorts them).
RECURSIVE JsonDumps(_)
JsonDumps(v) ==
  CASE v.t = "none" -> Str(<<"n", "u", "l", "l">>)
    [] v.t = "int"  -> IntText(v.n)
    [] v.t = "str"  -> <<34>> \o JsonString(v.s) \o <<34>>
    [] v.t = "dict" ->
         <<123>>
         \o Join([i \in 1..Len(v.d) |->
                   <<34>> \o JsonString(v.d[i].k) \o <<34, 58>> \o JsonDumps(v.d[i].v)],
                 <<44>>)
         \o <<125>>
    [] OTHER ->
         <<91>> \o Join([i \in 1..Len(v.d) |-> JsonDumps(v.d[i])], <<44>>) \o <<93>>

IsJsonSpace(c) == c \in {32, 9, 10, 13}

SkipWs(s) ==
  LET keep == {i \in 1..Len(s) : ~IsJsonSpace(s[i])} IN
  IF keep = {} THEN <<>> ELSE SubSeq(s, Min(keep), Len(s))

\* The length of the longest prefix of s made of digits.
DigitRun(s) ==
  LET other == {i \in 1..Len(s) : ~IsDigit(s[i])} IN
  IF other = {} THEN Len(s) ELSE Min(other) - 1

JFail == [ok |-> FALSE, v |-> VNone, rest |-> <<>>]

\* A JSON string body up to its closing quote.  The JSON texts of the
\* model hold no backslash escapes: one is reported as a failure.
JString(s) ==
  LET e == Find(s, <<34>>) IN
  IF e = 0 \/ Contains(SubSeq(s, 1, e - 1), <<92>>) THEN JFail
  ELSE [ok |-> TRUE, v |-> VStr(SubSeq(s, 1, e - 1)), rest |-> SubSeq(s, e + 1, Len(s))]

\* json's scanner over objects, arrays, strings, integers and null (the
\* JSON values of the model's inputs); a later duplicate key overwrites.
RECURSIVE JValue(_), JMembers(_, _), JElems(_, _)
JValue(s0) ==
  LET s == SkipWs(s0) IN
  IF s = <<>> THEN JFail
  ELSE IF s[1] = 34 THEN JString(Tail(s))
  ELSE IF s[1] = 123 THEN
    LET r == SkipWs(Tail(s)) IN
    IF r # <<>> /\ r[1] = 125 THEN [ok |-> TRUE, v |-> VDict(<<>>), rest |-> Tail(r)]
    ELSE JMembers(r, <<>>)
  ELSE IF s[1] = 91 THEN
    LET r == SkipWs(Tail(s)) IN
    IF r # <<>> /\ r[1] = 93 THEN [ok |-> TRUE, v |-> VList(<<>>), rest |-> Tail(r)]
    ELSE JElems(r, <<>>)
  ELSE IF Len(s) >= 4 /\ SubSeq(s, 1, 4) = Str(<<"n", "u", "l", "l">>)
    THEN [ok |-> TRUE, v |-> VNone, rest |-> SubSeq(s, 5, Len(s))]
  ELSE LET neg == s[1] = 45
           body == IF neg THEN Tail(s) ELSE s
           k == DigitRun(body)
           mag == DigitsValue(SubSeq(body, 1, k), 0)
       IN IF k = 0 \/ (k > 1 /\ body[1] = 48) THEN JFail
          ELSE [ok |-> TRUE, v |-> VInt(IF neg THEN 0 - mag ELSE mag),
                rest |-> SubSeq(body, k + 1, Len(body))]

JMembers(s0, acc) ==
  LET s == SkipWs(s0) IN
  IF s = <<>> \/ s[1] # 34 THEN JFail
  ELSE LET key == JString(Tail(s))
           c == SkipWs(key.rest)
       IN IF ~key.ok \/ c = <<>> \/ c[1] # 58 THEN JFail
          ELSE LET val == JValue(Tail(c))
                   r == SkipWs(val.rest)
                   acc2 == Put(acc, key.v.s, val.v)
               IN IF ~val.ok \/ r = <<>> THEN JFail
                  ELSE IF r[1] = 125 THEN [ok |-> TRUE, v |-> VDict(acc2), rest |-> Tail(r)]
                  ELSE IF r[1] = 44 THEN JMembers(Tail(r), acc2)
                  ELSE JFail

JElems(s0, acc) ==
  LET val == JValue(s0)
      r == SkipWs(val.rest)
  IN IF ~val.ok \/ r = <<>> THEN JFail
     ELSE IF r[1] = 93 THEN [ok |-> TRUE, v |-> VList(Append(acc, val.v)), rest |-> Tail(r)]
     ELSE IF r[1] = 44 THEN JElems(Tail(r), Append(acc, val.v))
     ELSE JFail

\* json.loads(text): ok is FALSE where it raises JSONDecodeError.
json_whole(r) ==
  IF r.ok /\ SkipWs(r.rest) = <<>> THEN [ok |-> TRUE, v |-> r.v] ELSE [ok |-> FALSE, v |-> VNone]

json_loads(text) == json_whole(JValue(text))

(***************************************************************************)
(* uuid.UUID                                                               *)
(***************************************************************************)
\* str.strip(chars)
StripChars(s, cs) ==
  LET keep == {i \in 1..Len(s) : s[i] \notin cs} IN
  IF keep = {} THEN <<>> ELSE SubSeq(s, Min(keep), Max(keep))

\* Whether int(text, 16) succeeds: surrounding whitespace, one sign, an
\* optional 0x prefix, hex digits with single underscores between them.
IsHexBody(body) ==
  /\ body # <<>>
  /\ IsHex(body[1]) /\ IsHex(body[Len(body)])
  /\ \A i \in 1..Len(body) : IsHex(body[i]) \/ body[i] = 95
  /\ \A i \in 1..(Len(body) - 1) : ~(body[i] = 95 /\ body[i + 1] = 95)

IsHexPrefixed(p) == IsHexBody(IF p # <<>> /\ p[1] = 95 THEN Tail(p) ELSE p)

IsHexUnsigned(u) ==
  IF Len(u) >= 2 /\ u[1] = 48 /\ u[2] \in {88, 120}
  THEN IsHexPrefixed(SubSeq(u, 3, Len(u)))
  ELSE IsHexBody(u)

IsHexSigned(s) == IsHexUnsigned(IF s # <<>> /\ s[1] \in {43, 45} THEN Tail(s) ELSE s)

IsHexInt(text) == IsHexSigned(Strip(text))

\* Whether uuid.UUID(data) accepts the string (it raises ValueError if not).
IsUUIDHex(h) == Len(h) = 32 /\ IsHexInt(h)

IsUUID(data) ==
  IsUUIDHex(Remove(StripChars(Remove(Remove(data, Str(<<"u", "r", "n", ":">>)),
                                     Str(<<"u", "u", "i", "d", ":">>)),
                              {123, 125}),
                   <<45>>))

(***************************************************************************)
(* parse_proxy_link                                                        *)
(***************************************************************************)
\* The field names and words the program spells out.
k_protocol == Str(<<"p", "r", "o", "t", "o", "c", "o", "l">>)
k_remarks == Str(<<"r", "e", "m", "a", "r", "k", "s">>)
k_server == Str(<<"s", "e", "r", "v", "e", "r">>)
k_port == Str(<<"p", "o", "r", "t">>)
k_uuid == Str(<<"u", "u", "i", "d">>)
k_password == Str(<<"p", "a", "s", "s", "w", "o", "r", "d">>)
k_alterId == Str(<<"a", "l", "t", "e", "r", "I", "d">>)
k_security == Str(<<"s", "e", "c", "u", "r", "i", "t", "y">>)
k_type == Str(<<"t", "y", "p", "e">>)
k_host == Str(<<"h", "o", "s", "t">>)
k_path == Str(<<"p", "a", "t", "h">>)
k_tls == Str(<<"t", "l", "s">>)
k_sni == Str(<<"s", "n", "i">>)
k_method == Str(<<"m", "e", "t", "h", "o", "d">>)
k_protocol_ssr == Str(<<"p", "r", "o", "t", "o", "c", "o", "l", "_", "s", "s", "r">>)
k_obfs == Str(<<"o", "b", "f", "s">>)
k_plugin == Str(<<"p", "l", "u", "g", "i", "n">>)
k_insecure == Str(<<"i", "n", "s", "e", "c", "u", "r", "e">>)
k_allowinsecure == Str(<<"a", "l", "l", "o", "w", "i", "n", "s", "e", "c", "u", "r", "e">>)
k_ps == Str(<<"p", "s">>)
k_add == Str(<<"a", "d", "d">>)
k_id == Str(<<"i", "d">>)
k_aid == Str(<<"a", "i", "d">>)
k_scy == Str(<<"s", "c", "y">>)
k_net == Str(<<"n", "e", "t">>)
s_vless == Str(<<"v", "l", "e", "s", "s">>)
s_trojan == Str(<<"t", "r", "o", "j", "a", "n">>)
s_vmess == Str(<<"v", "m", "e", "s", "s">>)
s_ss == Str(<<"s", "s">>)
s_ssr == Str(<<"s", "s", "r">>)
s_hy2 == Str(<<"h", "y", "2">>)
s_tuic == Str(<<"t", "u", "i", "c">>)
s_auto == Str(<<"a", "u", "t", "o">>)
s_tcp == Str(<<"t", "c", "p">>)
s_none == Str(<<"n", "o", "n", "e">>)
s_ws == Str(<<"w", "s">>)
s_grpc == Str(<<"g", "r", "p", "c">>)
s_http == Str(<<"h", "t", "t", "p">>)
s_tls == Str(<<"t", "l", "s">>)
s_0 == <<48>>
s_ss_prefix == Str(<<"s", "s", ":", "/", "/">>)
s_ssr_prefix == Str(<<"s", "s", "r", ":", "/", "/">>)

\* parse_proxy_link returning None.
ParseNone == [ok |-> FALSE, config |-> <<>>]
ParseOk(config) == [ok |-> TRUE, config |-> config]

\* config['server'] = p.hostname; config['port'] = p.port: ok is FALSE where
\* p.port raises.
put_server_port(config, host, pt) ==
  IF ~pt.ok THEN ParseNone
  ELSE ParseOk(Put(Put(config, k_server, host), k_port, pt.v))

server_port(p, config) == put_server_port(config, hostname(p), port(p))

\* The vless / trojan branch.
vless_trojan_user(scheme, r, user) ==
  IF ~r.ok THEN ParseNone
  ELSE IF scheme = s_vless THEN ParseOk(Put(r.config, k_uuid, user))
  ELSE ParseOk(Put(r.config, k_password, user))

parse_vless_trojan(p, config) == vless_trojan_user(p.scheme, server_port(p, config), username(p))

\* int(v) for a value from JSON: a str is parsed, an int is itself, None and
\* containers raise TypeError.
int_of(v) ==
  CASE v.t = "int" -> [ok |-> TRUE, n |-> v.n]
    [] v.t = "str" -> PyInt(v.s)
    [] OTHER       -> [ok |-> FALSE, n |-> 0]

\* The vmess branch: base64 of a JSON object after the 8 characters of
\* "vmess://"; the config is rebuilt from the JSON fields.
vmess_config(vmess_data, pt) ==
  IF ~pt.ok THEN ParseNone
  ELSE ParseOk(MkDict(<<
    Item(k_protocol, VStr(s_vmess)),
    Item(k_remarks, GetOr(vmess_data, k_ps, VStr(<<>>))),
    Item(k_server, GetOr(vmess_data, k_add, VStr(<<>>))),
    Item(k_port, VInt(pt.n)),
    Item(k_uuid, GetOr(vmess_data, k_id, VStr(<<>>))),
    Item(k_alterId, GetOr(vmess_data, k_aid, VStr(s_0))),
    Item(k_security, GetOr(vmess_data, k_scy, GetOr(vmess_data, k_security, VStr(s_auto)))),
    Item(k_type, GetOr(vmess_data, k_net, VStr(s_tcp))),
    Item(k_host, GetOr(vmess_data, k_host, VStr(<<>>))),
    Item(k_path, GetOr(vmess_data, k_path, VStr(<<>>))),
    Item(k_tls, GetOr(vmess_data, k_tls, VStr(s_none))),
    Item(k_sni, GetOr(vmess_data, k_sni, GetOr(vmess_data, k_host, VStr(<<>>)))) >>))

vmess_fields(vmess_data) == vmess_config(vmess_data, int_of(GetOr(vmess_data, k_port, VInt(0))))

vmess_data_of(js) == IF ~js.ok \/ js.v.t # "dict" THEN ParseNone ELSE vmess_fields(js.v.d)

vmess_json(txt) == IF ~txt.ok THEN ParseNone ELSE vmess_data_of(json_loads(txt.text))

parse_vmess(link) == vmess_json(b64_to_text(SubSeq(link, 9, Len(link))))

\* The ss branch: the text between "ss://" and the first '@' is tried as
\* base64 first and taken as plain text when that raises.
ss_method_password(r, mp) ==
  IF Len(mp) # 2 THEN ParseNone
  ELSE ParseOk(Put(Put(r.config, k_method, VStr(mp[1])), k_password, VStr(mp[2])))

ss_user_info(r, plain, b64) ==
  ss_method_password(r, Split1(IF b64.ok THEN b64.text ELSE plain, <<58>>))

ss_user_info_part(r, user_info_part) ==
  ss_user_info(r, user_info_part, b64_to_text(user_info_part))

ss_pieces(r, pieces) ==
  IF ~r.ok \/ Len(pieces) < 2 THEN ParseNone
  ELSE ss_user_info_part(r, unquote(Split(pieces[2], <<64>>)[1]))

parse_ss(link, p, config) == ss_pieces(server_port(p, config), Split(link, s_ss_prefix))

\* config[k] = safe_b64decode(v[0]).decode('utf-8') for each ssr parameter;
\* ok is FALSE when a decode raises.
ssr_param(r, key, val) ==
  IF ~r.ok \/ ~val.ok THEN ParseNone ELSE ParseOk(Put(r.config, key, VStr(val.text)))

RECURSIVE ssr_params(_, _)
ssr_params(params, r) ==
  IF params = <<>> THEN r
  ELSE ssr_params(Tail(params), ssr_param(r, params[1].k, b64_to_text(params[1].v.s)))

\* The ssr branch: base64 of server:port:protocol:method:obfs:password/?query.
ssr_protocol(r) == IF ~r.ok THEN ParseNone ELSE ParseOk(Put(r.config, k_protocol, VStr(s_ssr)))

ssr_update(config, f, pt, pw) ==
  IF ~pt.ok \/ ~pw.ok THEN ParseNone
  ELSE ParseOk(Update(config, <<
         Item(k_server, VStr(f[1])), Item(k_port, VInt(pt.n)),
         Item(k_protocol_ssr, VStr(f[3])), Item(k_method, VStr(f[4])),
         Item(k_obfs, VStr(f[5])), Item(k_password, VStr(pw.text)) >>))

ssr_main_part(config, f, params_part) ==
  IF Len(f) # 6 THEN ParseNone
  ELSE ssr_protocol(ssr_params(parse_qs(params_part),
                               ssr_update(config, f, PyInt(f[2]), b64_to_text(f[6]))))

ssr_halves(config, halves) ==
  IF Len(halves) # 2 THEN ParseNone
  ELSE ssr_main_part(config, Split(halves[1], <<58>>), halves[2])

ssr_decoded(config, decoded) ==
  IF ~decoded.ok THEN ParseNone ELSE ssr_halves(config, Split1(decoded.text, <<47, 63>>))

ssr_pieces(config, pieces) ==
  IF Len(pieces) < 2 THEN ParseNone ELSE ssr_decoded(config, b64_to_text(pieces[2]))

parse_ssr(link, config) == ssr_pieces(config, Split(link, s_ssr_prefix))

\* The hy2 / tuic branch.
hy2_tuic_sni(r, query_params, host) ==
  IF ~r.ok THEN ParseNone
  ELSE ParseOk(SetDefault(r.config, k_sni, GetOr(query_params, k_sni, host)))

parse_hy2_tuic(p, config, query_params) ==
  hy2_tuic_sni(server_port(p, Put(config, k_password, username(p))), query_params, hostname(p))

\* The closing port coercion: int(config['port']) for a truthy port.
coerce_int(r, n) == IF n.ok THEN ParseOk(Put(r.config, k_port, VInt(n.n))) ELSE ParseNone

coerce_value(r, pv) ==
  IF Has(r.config, k_port) /\ Truthy(pv) THEN coerce_int(r, int_of(pv)) ELSE r

coerce_port(r) == IF ~r.ok THEN ParseNone ELSE coerce_value(r, Get(r.config, k_port))

\* The branch on p.scheme.
parse_scheme(link, p, config, query_params) ==
  IF ~p.ok THEN ParseNone
  ELSE IF p.scheme = s_vless \/ p.scheme = s_trojan
    THEN parse_vless_trojan(p, config)
  ELSE IF p.scheme = s_vmess THEN parse_vmess(link)
  ELSE IF p.scheme = s_ss THEN parse_ss(link, p, config)
  ELSE IF p.scheme = s_ssr THEN parse_ssr(link, config)
  ELSE IF p.scheme = s_hy2 \/ p.scheme = s_tuic
    THEN parse_hy2_tuic(p, config, query_params)
  ELSE ParseNone

\* config = {'protocol': p.scheme, 'remarks': unquote(p.fragment)};
\* config.update(query_params)
parse_config(link, p, query_params) ==
  parse_scheme(link, p,
               Update(<<Item(k_protocol, VStr(p.scheme)),
                        Item(k_remarks, VStr(unquote(p.fragment)))>>, query_params),
               query_params)

parse_url(link, p) == parse_config(link, p, LowerKeys(parse_qs(p.query)))

\* parse_proxy_link(link): ok is FALSE where it returns None.
parse_proxy_link(link) == coerce_port(parse_url(link, urlparse(link)))

(***************************************************************************)
(* Normalisation and fingerprinting                                        *)
(***************************************************************************)
NON_DETERMINISTIC_FIELDS ==
  { Str(<<"t", "i", "m", "e", "s", "t", "a", "m", "p">>),
    Str(<<"c", "o", "m", "m", "e", "n", "t">>),
    Str(<<"r", "e", "m", "a", "r", "k", "s">>),
    Str(<<"f", "r", "a", "g", "m", "e", "n", "t">>),
    Str(<<"p", "s">>),
    Str(<<"a", "d", "d", "_", "t", "i", "m", "e">>),
    Str(<<"s", "u", "b">>),
    Str(<<"t", "a", "g">>),
    Str(<<"g", "r", "o", "u", "p">>) }

\* sorted(keys): the keys of a dict (distinct texts), ascending.
SortedKeys(items) ==
  [r \in 1..Len(items) |->
     CHOOSE key \in KeySet(items) :
       Cardinality({o \in KeySet(items) : TextLess(o, key)}) = r - 1]

RECURSIVE sort_dict_keys(_)
sort_dict_keys(data) ==
  IF data.t = "dict" THEN
    LET ks == SortedKeys(data.d) IN
    VDict([i \in 1..Len(ks) |-> Item(ks[i], sort_dict_keys(Get(data.d, ks[i])))])
  ELSE IF data.t = "list" THEN VList([i \in 1..Len(data.d) |-> sort_dict_keys(data.d[i])])
  ELSE data

\* A variant that removes the same entries but leaves the case of the keys
\* and of the values alone: what the order and case invariance is told from.
remove_keeping_case(data) ==
  IF data.t = "dict" THEN
    VDict(SelectSeq(data.d, LAMBDA it :
            /\ Lower(it.k) \notin NON_DETERMINISTIC_FIELDS
            /\ it.v # VNone
            /\ it.v # VStr(<<>>)))
  ELSE data

\* The inner function of normalize_config.
RECURSIVE recursive_remove_and_lowercase(_)
recursive_remove_and_lowercase(data) ==
  IF data.t = "dict" THEN
    LET kept == SelectSeq(data.d, LAMBDA it :
                  /\ Lower(it.k) \notin NON_DETERMINISTIC_FIELDS
                  /\ it.v # VNone
                  /\ it.v # VStr(<<>>))
    IN VDict(MkDict([i \in 1..Len(kept) |->
                Item(Lower(kept[i].k), recursive_remove_and_lowercase(kept[i].v))]))
  ELSE IF data.t = "list" THEN
    VList([i \in 1..Len(data.d) |-> recursive_remove_and_lowercase(data.d[i])])
  ELSE IF data.t = "str" THEN (IF IsUUID(data.s) THEN VStr(Lower(data.s)) ELSE data)
  ELSE data

\* for key, value in defaults[protocol].items(): normalized.setdefault(key, value)
RECURSIVE backfill(_, _)
backfill(normalized, dflt) ==
  IF dflt = <<>> THEN normalized
  ELSE backfill(SetDefault(normalized, dflt[1].k, dflt[1].v), Tail(dflt))

\* normalize_config(config, defaults), for a config (the items of a dict)
\* and the value load_defaults returned.  ok is FALSE where it raises:
\* 'protocol in defaults' on a defaults that is None or with an unhashable
\* protocol, '.items()' on a protocol entry that is no dict.
normalize_sorted(r) ==
  IF ~r.ok THEN [ok |-> FALSE, config |-> <<>>]
  ELSE [ok |-> TRUE, config |-> sort_dict_keys(VDict(r.config)).d]

normalize_entry(normalized, entry) ==
  IF entry.t # "dict" THEN ParseNone ELSE ParseOk(backfill(normalized, entry.d))

normalize_protocol(normalized, protocol, defaults) ==
  IF ~Truthy(protocol) THEN ParseOk(normalized)
  ELSE IF defaults.t # "dict" \/ protocol.t \in {"dict", "list"} THEN ParseNone
  ELSE IF protocol.t # "str" \/ ~Has(defaults.d, protocol.s) THEN ParseOk(normalized)
  ELSE normalize_entry(normalized, Get(defaults.d, protocol.s))

normalize_defaults(normalized, defaults) ==
  normalize_sorted(normalize_protocol(normalized, Get(normalized, k_protocol), defaults))

normalize_config(config, defaults) ==
  normalize_defaults(recursive_remove_and_lowercase(VDict(config)).d, defaults)

\* {k: v for k, v in identity.items() if v is not None}
DropNone(items) == SelectSeq(items, LAMBDA it : it.v # VNone)

\* Variants of the identity: one that counts the remarks in, one that leaves
\* the port out, one that takes every field of the config.
identity_with_remarks(config) ==
  DropNone(<<Item(k_server, Get(config, k_server)), Item(k_port, Get(config, k_port)),
             Item(k_remarks, Get(config, k_remarks))>>)

identity_without_port(config) ==
  DropNone(<<Item(k_server, Get(config, k_server)), Item(k_uuid, Get(config, k_uuid)),
             Item(k_password, Get(config, k_password))>>)

identity_of_every_field(config) == DropNone(config)

get_identity_fields(config) ==
  LET protocol == Get(config, k_protocol)
      identity == <<Item(k_server, Get(config, k_server)), Item(k_port, Get(config, k_port))>>
      g(key) == Item(key, Get(config, key))
  IN DropNone(
       IF protocol = VStr(s_vless) \/ protocol = VStr(s_vmess) THEN
         identity
         \o <<g(k_uuid), g(k_type), g(k_security)>>
         \o (IF Get(config, k_type) \in {VStr(s_ws), VStr(s_grpc), VStr(s_http)}
             THEN <<g(k_host), g(k_path)>> ELSE <<>>)
         \o (IF Get(config, k_security) = VStr(s_tls) \/ Get(config, k_tls) = VStr(s_tls)
             THEN <<g(k_sni)>> ELSE <<>>)
       ELSE IF protocol = VStr(s_trojan) THEN identity \o <<g(k_password), g(k_sni)>>
       ELSE IF protocol = VStr(s_ss) THEN identity \o <<g(k_method), g(k_password), g(k_plugin)>>
       ELSE IF protocol = VStr(s_ssr) THEN
         identity \o <<g(k_method), g(k_password), g(k_protocol_ssr), g(k_obfs)>>
       ELSE IF protocol = VStr(s_hy2) \/ protocol = VStr(s_tuic) THEN
         identity
         \o <<g(k_password), g(k_sni),
              Item(k_insecure, GetOr(config, k_insecure, Get(config, k_allowinsecure)))>>
       ELSE identity)

\* sha256(data).hexdigest(), taken as collision-free: the digest is
\* modelled by the text it digests.
sha256_hexdigest(data) == [sha256_of |-> data]

fingerprint_config(config) ==
  sha256_hexdigest(encode_utf8(JsonDumps(sort_dict_keys(VDict(get_identity_fields(config))))))

(***************************************************************************)
(* decode_content, load_defaults, and the pieces of main                   *)
(***************************************************************************)
\* [line.strip() for line in lines if line.strip()]
StrippedNonEmpty(lines) ==
  SelectSeq([i \in 1..Len(lines) |-> Strip(lines[i])], LAMBDA l : l # <<>>)

\* decode_content(content): base64 is tried first; the content is taken as
\* plain text only when the decode raises.
decoded_str(content, r) == IF r.ok THEN decode_utf8_ignore(r.bytes) ELSE content

decode_content(content) ==
  StrippedNonEmpty(SplitLines(decoded_str(content, safe_b64decode(content))))

\* load_defaults(path), for a defaults file described by what opening it and
\* yaml.safe_load do with it: "absent" (FileNotFoundError, caught: {}),
\* "malformed" (yaml.YAMLError, which nothing catches), "loaded" (the value
\* safe_load returns: None for an empty document).
load_defaults(file) ==
  CASE file.kind = "absent"    -> [ok |-> TRUE, v |-> VDict(<<>>)]
    [] file.kind = "malformed" -> [ok |-> FALSE, v |-> VNone]
    [] OTHER                   -> [ok |-> TRUE, v |-> file.value]

\* A variant of the table that keeps the last line seen with a fingerprint
\* instead of the first.
dedup_last_seen(unique, raw_config, fingerprint) ==
  [ok |-> TRUE, unique |-> Put(unique, fingerprint, raw_config)]

\* The body of the loop over raw_configs, for one raw line: the table after
\* it.  ok is FALSE where normalize_config raises.
dedup_fingerprint(unique, raw_config, fingerprint) ==
  IF \E i \in 1..Len(unique) : unique[i].k = fingerprint
  THEN [ok |-> TRUE, unique |-> unique]
  ELSE [ok |-> TRUE, unique |-> Append(unique, Item(fingerprint, raw_config))]

dedup_normalized(unique, raw_config, normalized) ==
  IF ~normalized.ok THEN [ok |-> FALSE, unique |-> unique]
  ELSE dedup_fingerprint(unique, raw_config, fingerprint_config(normalized.config))

\* A variant of the loop body that keeps a line it could not parse, under
\* the digest of the line itself.
dedup_keep_unparsable(unique, raw_config, parsed, defaults) ==
  IF ~(parsed.ok /\ parsed.config # <<>>)
  THEN dedup_fingerprint(unique, raw_config, sha256_hexdigest(encode_utf8(raw_config)))
  ELSE dedup_normalized(unique, raw_config, normalize_config(parsed.config, defaults))

dedup_parsed(unique, raw_config, parsed, defaults) ==
  IF ~(parsed.ok /\ parsed.config # <<>>) THEN [ok |-> TRUE, unique |-> unique]
  ELSE dedup_normalized(unique, raw_config, normalize_config(parsed.config, defaults))

dedup_line(unique, raw_config, defaults) ==
  dedup_parsed(unique, raw_config, parse_proxy_link(raw_config), defaults)

\* list(unique_configs_for_this_url.values())
Values(items) == [i \in 1..Len(items) |-> items[i].v]

\* os.path.basename(path)
basename(path) == SubSeq(path, RFind(path, <<47>>) + 1, Len(path))

\* f"{n:04d}.txt"
CounterName(n) ==
  LET d == NatText(n) IN
  [i \in 1..(4 - Len(d)) |-> 48] \o d \o Str(<<".", "t", "x", "t">>)

\* The output file name main derives for a URL.
filename_or_counter(name, n) == IF name = <<>> \/ name = <<47>> THEN CounterName(n) ELSE name

output_filename(url, n) == filename_or_counter(basename(urlparse(url).path), n)

\* What main writes: conf + '\n' for each kept line.
FileText(lines) == Flatten([i \in 1..Len(lines) |-> Append(lines[i], NL)])

\* The input file's URLs: [line.strip() for line in f if line.strip()]
input_urls(text) == StrippedNonEmpty(Split(text, <<NL>>))

(***************************************************************************)
(* The worlds a run starts in                                              *)
(***************************************************************************)
\* download_url's retries parameter.
retries == 3

\* Bounds of the model: the longest feed of the single-source worlds, and
\* the longest list of sources.
MaxLines == 2
MaxUrls == 2

\* Raw lines a feed may hold: two vless links that differ in the fragment
\* only, an unknown scheme, the same ss proxy with base64 and with clear
\* userinfo, a trojan link with a bad port, a hy2 link and a vmess link.
LinkCatalogue == <<
  Str(<<"v", "l", "e", "s", "s", ":", "/", "/", "u", "@", "h", ":", "4", "4", "3", "?", "t", "y", "p", "e", "=", "w", "s", "&", "h", "o", "s", "t", "=", "a", ".", "c", "o", "m", "&", "p", "a", "t", "h", "=", "/", "x", "#", "r", "1">>),
  Str(<<"v", "l", "e", "s", "s", ":", "/", "/", "u", "@", "h", ":", "4", "4", "3", "?", "t", "y", "p", "e", "=", "w", "s", "&", "h", "o", "s", "t", "=", "a", ".", "c", "o", "m", "&", "p", "a", "t", "h", "=", "/", "x", "#", "r", "2">>),
  Str(<<"f", "o", "o", ":", "/", "/", "b", "a", "r">>),
  Str(<<"s", "s", ":", "/", "/", "Y", "T", "p", "i", "@", "h", ":", "1">>),
  Str(<<"s", "s", ":", "/", "/", "a", ":", "b", "@", "h", ":", "1", "#", "x">>),
  Str(<<"t", "r", "o", "j", "a", "n", ":", "/", "/", "p", "w", "@", "h", ":", "x">>),
  Str(<<"h", "y", "2", ":", "/", "/", "p", "w", "@", "h", ":", "1">>),
  Str(<<"v", "m", "e", "s", "s", ":", "/", "/", "e", "y", "J", "h", "Z", "G", "Q", "i", "O", "i", "J", "o", "I", "i", "w", "i", "c", "G", "9", "y", "d", "C", "I", "6", "I", "j", "E", "i", "L", "C", "J", "p", "Z", "C", "I", "6", "I", "n", "U", "i", "f", "Q", "=", "=">>) >>

\* A feed as its publisher serves it: the lines joined by newlines, in
\* base64 or as plain text.
Payload(lines, enc) ==
  LET text == Join(lines, <<NL>>) IN
  IF enc = "base64" THEN b64encode(encode_utf8(text)) ELSE text

Feed(ixs) == [i \in 1..Len(ixs) |-> LinkCatalogue[ixs[i]]]

\* The sources of the multi-source worlds: two whose paths end in the same
\* file name, one without a file name, one whose file name is the name main
\* gives the first source without one.
url_a == Str(<<"h", "t", "t", "p", ":", "/", "/", "a", "/", "s", ".", "t", "x", "t">>)
url_b == Str(<<"h", "t", "t", "p", ":", "/", "/", "b", "/", "s", ".", "t", "x", "t">>)
url_c == Str(<<"h", "t", "t", "p", ":", "/", "/", "c", "/">>)
url_d == Str(<<"h", "t", "t", "p", ":", "/", "/", "d", "/", "0", "0", "0", "1", ".", "t", "x", "t">>)
SiteUrls == <<url_a, url_b, url_c, url_d>>

SiteNet ==
  (url_a :> Payload(Feed(<<1, 4>>), "base64"))
  @@ (url_b :> Payload(Feed(<<2, 3, 7>>), "base64"))
  @@ (url_c :> Payload(Feed(<<5, 1>>), "base64"))
  @@ (url_d :> Payload(Feed(<<3, 6>>), "base64"))

\* Defaults files: none, one that is not YAML, an empty one, and two tables.
DefaultsTable ==
  VDict(<<Item(s_trojan, VDict(<<Item(k_sni, VStr(Str(<<"e", ".", "c", "o", "m">>)))>>)),
          Item(s_vless, VDict(<<Item(k_type, VStr(s_tcp))>>))>>)

DefaultsFiles ==
  { [kind |-> "absent", value |-> VNone],
    [kind |-> "malformed", value |-> VNone],
    [kind |-> "loaded", value |-> VNone],
    [kind |-> "loaded", value |-> VDict(<<>>)],
    [kind |-> "loaded", value |-> DefaultsTable] }

SeqsUpTo(S, n) == UNION {[1..m -> S] : m \in 0..n}

InputText(us) == Flatten([i \in 1..Len(us) |-> Append(us[i], NL)])

\* A world: the input file, the defaults file, and what each URL serves.
SingleSourceCases ==
  { [defaults_file |-> [kind |-> "absent", value |-> VNone], enc |-> "base64"],
    [defaults_file |-> [kind |-> "absent", value |-> VNone], enc |-> "plain"],
    [defaults_file |-> [kind |-> "loaded", value |-> DefaultsTable], enc |-> "base64"] }

SingleSourceWorlds ==
  { [input_file |-> [exists |-> TRUE, text |-> InputText(<<url_a>>)],
     defaults_file |-> c.defaults_file,
     net |-> (url_a :> Payload(Feed(ixs), c.enc))] :
      c \in SingleSourceCases,
      ixs \in SeqsUpTo(1..Len(LinkCatalogue), MaxLines) }

MultiSourceWorlds ==
  { [input_file |-> [exists |-> TRUE, text |-> InputText([i \in 1..Len(us) |-> SiteUrls[us[i]]])],
     defaults_file |-> df,
     net |-> SiteNet] :
      df \in DefaultsFiles,
      us \in SeqsUpTo(1..Len(SiteUrls), MaxUrls) }

\* No input file, an empty one, and one that holds an empty line only.
NoInputWorlds ==
  { [input_file |-> f, defaults_file |-> [kind |-> "absent", value |-> VNone], net |-> SiteNet] :
      f \in {[exists |-> FALSE, text |-> <<>>], [exists |-> TRUE, text |-> <<>>],
            [exists |-> TRUE, text |-> <<NL>>]} }

Worlds == SingleSourceWorlds \cup MultiSourceWorlds \cup NoInputWorlds

(***************************************************************************)
(* main                                                                    *)
(***************************************************************************)
VARIABLES
  pc,             \* where main is
  input_file,     \* the --input file: [exists, text]
  defaults_file,  \* the --defaults file: [kind, value]
  net,            \* what a GET of each URL returns when it succeeds
  defaults,       \* main's defaults
  urls,           \* main's urls
  url_counter,    \* main's url_counter
  attempt,        \* download_url's attempt
  content,        \* main's content
  raw_configs,    \* main's raw_configs
  idx,            \* the index in raw_configs of the line the inner loop is at
  unique,         \* main's unique_configs_for_this_url: items fingerprint -> raw line
  fs,             \* the output directory: items file name -> VStr(file text)
  status,         \* the exit status of the process (-1 while it runs)
  log,            \* history: what became of each source
  probe           \* the function-level specifications: the inputs drawn and the
                  \* results of the functions applied to them so far

vars == <<pc, input_file, defaults_file, net, defaults, urls, url_counter, attempt,
          content, raw_configs, idx, unique, fs, status, log, probe>>

\* What a run of main leaves as it is: the files it reads, the network, and
\* the probe, which only the function-level specifications use.
world == <<input_file, defaults_file, net, probe>>

NoProbe == [step |-> 0]

Init ==
  /\ \E w \in Worlds :
       /\ input_file = w.input_file
       /\ defaults_file = w.defaults_file
       /\ net = w.net
  /\ pc = "start"
  /\ defaults = VNone
  /\ urls = <<>>
  /\ url_counter = 0
  /\ attempt = 0
  /\ content = <<>>
  /\ raw_configs = <<>>
  /\ idx = 0
  /\ unique = <<>>
  /\ fs = <<>>
  /\ status = 0 - 1
  /\ log = <<>>
  /\ probe = NoProbe

Event(ev, name, lines) ==
  [ev |-> ev, src |-> url_counter, url |-> urls[url_counter], name |-> name, lines |-> lines]

\* The input check: a missing or empty input file is sys.exit(1).
CheckInput ==
  /\ pc = "start"
  /\ IF ~input_file.exists \/ input_file.text = <<>>
     THEN pc' = "exit" /\ status' = 1
     ELSE pc' = "load_defaults" /\ UNCHANGED status
  /\ UNCHANGED <<world, defaults, urls, url_counter, attempt, content, raw_configs,
                 idx, unique, fs, log>>

\* load_defaults, then reading the URLs.  An exception load_defaults does
\* not catch ends the process with a traceback, status 1.
Loaded(r) ==
  IF r.ok
  THEN /\ defaults' = r.v
       /\ urls' = input_urls(input_file.text)
       /\ pc' = "loop"
       /\ UNCHANGED status
  ELSE /\ pc' = "crashed"
       /\ status' = 1
       /\ UNCHANGED <<defaults, urls>>

LoadDefaults ==
  /\ pc = "load_defaults"
  /\ Loaded(load_defaults(defaults_file))
  /\ UNCHANGED <<world, url_counter, attempt, content, raw_configs, idx, unique, fs, log>>

\* The head of the loop over urls; after the last one main returns.
NextUrl ==
  /\ pc = "loop"
  /\ IF url_counter < Len(urls)
     THEN /\ url_counter' = url_counter + 1
          /\ attempt' = 0
          /\ pc' = "download"
          /\ UNCHANGED status
     ELSE /\ pc' = "done"
          /\ status' = 0
          /\ UNCHANGED <<url_counter, attempt>>
  /\ UNCHANGED <<world, defaults, urls, content, raw_configs, idx, unique, fs, log>>

\* One attempt of download_url that raises RequestException; after the last
\* one download_url returns None and main skips the URL.
DownloadFails ==
  /\ pc = "download"
  /\ attempt < retries
  /\ attempt' = attempt + 1
  /\ IF attempt + 1 = retries
     THEN /\ pc' = "loop"
          /\ log' = Append(log, Event("fetch_failed", <<>>, <<>>))
     ELSE UNCHANGED <<pc, log>>
  /\ UNCHANGED <<world, defaults, urls, url_counter, content, raw_configs, idx, unique,
                 fs, status>>

\* An attempt of download_url that succeeds (download_url returns, and its
\* attempt is gone), then decode_content; main skips an empty content and a
\* content without lines.
DownloadSucceeds ==
  /\ pc = "download"
  /\ attempt < retries
  /\ attempt' = 0
  /\ content' = net[urls[url_counter]]
  /\ raw_configs' = IF content' = <<>> THEN <<>> ELSE decode_content(content')
  /\ IF raw_configs' = <<>>
     THEN /\ pc' = "loop"
          /\ log' = Append(log, Event("no_configs", <<>>, <<>>))
          /\ UNCHANGED <<unique, idx>>
     ELSE /\ pc' = "line"
          /\ unique' = <<>>
          /\ idx' = 1
          /\ UNCHANGED log
  /\ UNCHANGED <<world, defaults, urls, url_counter, fs, status>>

\* One pass of the loop over raw_configs.  An exception of normalize_config
\* is caught nowhere: the process ends with a traceback, status 1.
LineDone(r) ==
  IF r.ok
  THEN /\ unique' = r.unique
       /\ idx' = idx + 1
       /\ UNCHANGED <<pc, status>>
  ELSE /\ pc' = "crashed"
       /\ status' = 1
       /\ UNCHANGED <<unique, idx>>

ProcessLine ==
  /\ pc = "line"
  /\ idx <= Len(raw_configs)
  /\ LineDone(dedup_line(unique, raw_configs[idx], defaults))
  /\ UNCHANGED <<world, defaults, urls, url_counter, attempt, content, raw_configs, fs, log>>

\* After the loop over raw_configs: nothing kept, nothing written.
NothingKept ==
  /\ pc = "line"
  /\ idx > Len(raw_configs)
  /\ unique = <<>>
  /\ pc' = "loop"
  /\ log' = Append(log, Event("nothing_kept", <<>>, <<>>))
  /\ UNCHANGED <<world, defaults, urls, url_counter, attempt, content, raw_configs, idx,
                 unique, fs, status>>

\* After the loop over raw_configs: the kept lines are written to the file
\* named after the URL, over whatever the directory holds under that name.
Written(name) ==
  /\ fs' = Put(fs, name, VStr(FileText(Values(unique))))
  /\ log' = Append(log, Event("saved", name, Values(unique)))

Save ==
  /\ pc = "line"
  /\ idx > Len(raw_configs)
  /\ unique # <<>>
  /\ Written(output_filename(urls[url_counter], url_counter))
  /\ pc' = "loop"
  /\ UNCHANGED <<world, defaults, urls, url_counter, attempt, content, raw_configs, idx,
                 unique, status>>

\* The same point, when opening or writing the file raises: main logs the
\* error and goes on.
SaveFails ==
  /\ pc = "line"
  /\ idx > Len(raw_configs)
  /\ unique # <<>>
  /\ log' = Append(log, Event("save_failed",
                              output_filename(urls[url_counter], url_counter), Values(unique)))
  /\ pc' = "loop"
  /\ UNCHANGED <<world, defaults, urls, url_counter, attempt, content, raw_configs, idx,
                 unique, fs, status>>

Next ==
  \/ CheckInput
  \/ LoadDefaults
  \/ NextUrl
  \/ DownloadFails
  \/ DownloadSucceeds
  \/ ProcessLine
  \/ NothingKept
  \/ Save
  \/ SaveFails

Spec == Init /\ [][Next]_vars


(***************************************************************************)
(* The deduplicator and the run: properties of Spec                        *)
(***************************************************************************)
\* Whether parse_proxy_link gives a config for the line.
Parsable(line) == parse_proxy_link(line).ok

\* The fingerprint main computes for a line, as a one-element sequence, or
\* the empty sequence for an unparsable line.
LinePrint(parsed, dflt) ==
  IF parsed.ok THEN <<fingerprint_config(normalize_config(parsed.config, dflt).config)>>
  ELSE <<>>

\* The fingerprints of the lines of a feed, line by line.
RECURSIVE LineFingerprints(_, _)
LineFingerprints(lines, dflt) ==
  IF lines = <<>> THEN <<>>
  ELSE <<LinePrint(parse_proxy_link(lines[1]), dflt)>> \o LineFingerprints(Tail(lines), dflt)

\* The places of a feed that hold a parsable line whose fingerprint no
\* earlier line of the feed has.
FirstOccurrences(fps) ==
  {j \in 1..Len(fps) : fps[j] # <<>> /\ \A i \in 1..(j - 1) : fps[i] # fps[j]}

Pick(lines, places) == [k \in 1..Len(places) |-> lines[places[k]]]

\* The first-seen lines of a feed, in the order of the feed.
FirstSeen(lines, dflt) ==
  Pick(lines, SortedSeq(FirstOccurrences(LineFingerprints(lines, dflt))))

\* The lines of the feed that the inner loop has passed.
Passed == SubSeq(raw_configs, 1, idx - 1)

\* The last entry of the log is the save of the current source.
JustSaved ==
  /\ pc = "loop"
  /\ log # <<>>
  /\ log[Len(log)].ev = "saved"
  /\ log[Len(log)].src = url_counter

\* C1 (deduplicator, first seen wins): while a feed is processed, the kept
\* lines are exactly the first parsable line of each fingerprint among the
\* lines passed, in the order of their first occurrence; and the lines
\* written for the feed are the first-seen lines of the whole feed.
C1_FirstSeenKept ==
  /\ pc = "line" => Values(unique) = FirstSeen(Passed, defaults)
  /\ JustSaved => log[Len(log)].lines = FirstSeen(raw_configs, defaults)

\* C1, witness: a whole feed of two parsable lines with one fingerprint has
\* been passed, and one line is kept.
C1_Witness ==
  /\ pc = "line"
  /\ idx > Len(raw_configs)
  /\ Len(raw_configs) = 2
  /\ raw_configs[1] # raw_configs[2]
  /\ Parsable(raw_configs[1]) /\ Parsable(raw_configs[2])
  /\ Len(unique) = 1

\* The table of a feed: the loop body applied to its lines in order.
RECURSIVE DedupAll(_, _, _)
DedupAll(lines, dflt, table) ==
  IF lines = <<>> THEN table
  ELSE DedupAll(Tail(lines), dflt, dedup_line(table, lines[1], dflt).unique)

\* A counterexample formula of C2 reads the saves of the log: each source
\* that was saved, with the name and the lines of its save.
Saves == SelectSeq(log, LAMBDA e : e.ev = "saved")

\* C2 (per-source artifacts), as the claim states it: when the run has
\* finished, every source that was fetched, gave at least one parsable line
\* and was written has an artifact that holds exactly its own kept lines, one
\* per line; no later source has replaced them.
C2_EverySourceHasItsArtifact ==
  pc = "done" =>
    \A i \in 1..Len(Saves) :
      /\ Has(fs, Saves[i].name)
      /\ Get(fs, Saves[i].name) = VStr(FileText(Saves[i].lines))

\* C3 (bad-line isolation): the table of the lines passed is the table of the
\* same lines with every unparsable line deleted; no kept line is
\* unparsable; and the loop body never raises on an unparsable line.
C3_BadLinesIsolated ==
  /\ pc = "line" =>
       /\ unique = DedupAll(SelectSeq(Passed, Parsable), defaults, <<>>)
       /\ \A i \in 1..Len(unique) : Parsable(unique[i].v)
  /\ (pc = "crashed" /\ raw_configs # <<>>) => Parsable(raw_configs[idx])

\* C3, witness: a whole feed that holds an unparsable line has been passed
\* and a line of it is kept.
C3_Witness ==
  /\ pc = "line"
  /\ idx > Len(raw_configs)
  /\ \E i \in 1..Len(raw_configs) : ~Parsable(raw_configs[i])
  /\ unique # <<>>

\* C4 (run-level error containment), as the claim states it: a run ends with
\* a non-zero status only when the input lists no source at all.
C4_OnlyNoSourcesIsFatal ==
  (status # 0 - 1 /\ status # 0) =>
    (~input_file.exists \/ input_urls(input_file.text) = <<>>)


(***************************************************************************)
(* The normalizer and the fingerprint engine, function by function: FnSpec *)
(* draws a config x, an edit of it y and a defaults table d, and applies   *)
(* normalize_config and fingerprint_config to them.                        *)
(***************************************************************************)
\* Every variable of main: the function-level specifications leave main idle.
mainvars == <<pc, input_file, defaults_file, net, defaults, urls, url_counter, attempt,
              content, raw_configs, idx, unique, fs, status, log>>

Idle ==
  /\ pc = "idle"
  /\ input_file = [exists |-> FALSE, text |-> <<>>]
  /\ defaults_file = [kind |-> "absent", value |-> VNone]
  /\ net = <<>>
  /\ defaults = VNone
  /\ urls = <<>>
  /\ url_counter = 0
  /\ attempt = 0
  /\ content = <<>>
  /\ raw_configs = <<>>
  /\ idx = 0
  /\ unique = <<>>
  /\ fs = <<>>
  /\ status = 0 - 1
  /\ log = <<>>

k_fp == Str(<<"f", "p">>)
k_Server == Str(<<"S", "e", "r", "v", "e", "r">>)
s_foo == Str(<<"f", "o", "o">>)
s_h == Str(<<"h">>)
s_g == Str(<<"g">>)
s_r2 == Str(<<"r", "2">>)
s_443 == Str(<<"4", "4", "3">>)

\* A UUID in upper case, as a feed may spell it, and its canonical form.
UuidUpper ==
  Str(<<"A", "B", "C", "D", "E", "F", "0", "1", "-", "2", "3", "4", "5", "-",
        "6", "7", "8", "9", "-", "A", "B", "C", "D", "-",
        "E", "F", "0", "1", "2", "3", "4", "5", "6", "7", "8", "9">>)
UuidLower == Lower(UuidUpper)

\* The configs drawn: what parse_proxy_link gives for links of the
\* catalogue (vless over ws, ss, hy2, vmess), the vless config with a UUID in
\* upper case, a trojan config, a config of an unrecognized protocol, and
\* one whose keys 'server' and 'Server' collide when lower-cased.
cfg_vless == parse_proxy_link(LinkCatalogue[1]).config
cfg_vless_uuid == Put(cfg_vless, k_uuid, VStr(UuidUpper))
cfg_ss == parse_proxy_link(LinkCatalogue[5]).config
cfg_hy2 == parse_proxy_link(LinkCatalogue[7]).config
cfg_vmess == parse_proxy_link(LinkCatalogue[8]).config
cfg_trojan ==
  <<Item(k_protocol, VStr(s_trojan)), Item(k_remarks, VStr(s_r2)),
    Item(k_server, VStr(s_h)), Item(k_port, VInt(443)), Item(k_password, VStr(s_g))>>
cfg_foo ==
  <<Item(k_protocol, VStr(s_foo)), Item(k_server, VStr(s_h)), Item(k_port, VInt(1)),
    Item(k_fp, VStr(s_g))>>
cfg_collide ==
  <<Item(k_protocol, VStr(s_foo)), Item(k_server, VStr(s_h)), Item(k_Server, VStr(s_g)),
    Item(k_port, VInt(1))>>

BaseConfigs ==
  {cfg_vless, cfg_vless_uuid, cfg_ss, cfg_hy2, cfg_vmess, cfg_trojan, cfg_foo, cfg_collide}

\* A defaults file as its author may write it, with the parser's own
\* spelling of a field name: alterId.
CamelCaseDefaults ==
  VDict(<<Item(s_vless, VDict(<<Item(k_alterId, VStr(s_0))>>)),
          Item(s_vmess, VDict(<<Item(k_alterId, VStr(s_0))>>))>>)

FnDefaults == {VDict(<<>>), DefaultsTable, CamelCaseDefaults}

\* del d[key]
Del(items, key) == SelectSeq(items, LAMBDA it : it.k # key)

Reverse(items) == [i \in 1..Len(items) |-> items[Len(items) + 1 - i]]
Rotate(items) == IF items = <<>> THEN items ELSE Tail(items) \o <<items[1]>>

\* str.upper() and str.capitalize() on a key of ASCII letters, and the dicts
\* {k.upper(): v for k, v in x.items()}, {k.capitalize(): v for ...}.
Upper(s) == [i \in 1..Len(s) |-> IF IsLower(s[i]) THEN s[i] - 32 ELSE s[i]]
Capital(s) == [i \in 1..Len(s) |-> IF i = 1 /\ IsLower(s[i]) THEN s[i] - 32 ELSE s[i]]
UpperKeys(items) == MkDict([i \in 1..Len(items) |-> Item(Upper(items[i].k), items[i].v)])
CapitalKeys(items) ==
  MkDict([i \in 1..Len(items) |-> Item(Capital(items[i].k), items[i].v)])

\* The edits drawn.  A put or del of a non-deterministic field; a put of
\* server or port; a put of another field; a permutation of the keys, a
\* re-casing of the keys, or both.
Edit(op, f, v) == [op |-> op, f |-> f, v |-> v]

NoiseValues == {VStr(s_r2), VStr(<<>>), VInt(7)}
ServerValues == {VNone, VStr(<<>>), VStr(s_h), VStr(s_g), VStr(UuidUpper), VStr(UuidLower)}
PortValues == {VNone, VStr(<<>>), VInt(443), VInt(1), VStr(s_443)}
OtherFields == {k_security, k_tls, k_type, k_sni, k_insecure, k_allowinsecure, k_fp}
OtherValues == {VStr(s_tls), VStr(s_none), VStr(s_ws)}
ReorderOps == {"reverse", "rotate", "upper", "capital", "reverse_upper"}

Edits ==
  {Edit("put", f, v) : f \in NON_DETERMINISTIC_FIELDS, v \in NoiseValues}
  \cup {Edit("del", f, VNone) : f \in NON_DETERMINISTIC_FIELDS}
  \cup {Edit("put", k_server, v) : v \in ServerValues}
  \cup {Edit("put", k_port, v) : v \in PortValues}
  \cup {Edit("put", f, v) : f \in OtherFields, v \in OtherValues}
  \cup {Edit(op, <<>>, VNone) : op \in ReorderOps}

Apply(x, e) ==
  CASE e.op = "put"     -> Put(x, e.f, e.v)
    [] e.op = "del"     -> Del(x, e.f)
    [] e.op = "reverse" -> Reverse(x)
    [] e.op = "rotate"  -> Rotate(x)
    [] e.op = "upper"   -> UpperKeys(x)
    [] e.op = "capital" -> CapitalKeys(x)
    [] OTHER            -> UpperKeys(Reverse(x))

FnProbes ==
  { [x |-> x, y |-> Apply(x, e), d |-> d, edit |-> e, step |-> 0,
     nx |-> ParseNone, ny |-> ParseNone, nnx |-> ParseNone,
     fx |-> sha256_hexdigest(<<>>), fy |-> sha256_hexdigest(<<>>),
     ix |-> <<>>, iy |-> <<>>,
     fnx |-> sha256_hexdigest(<<>>), fny |-> sha256_hexdigest(<<>>)] :
      x \in BaseConfigs, e \in Edits, d \in FnDefaults }

FnInit == Idle /\ probe \in FnProbes

\* normalize_config(x, d) and normalize_config(y, d)
ApplyNormalize ==
  /\ probe.step = 0
  /\ probe' = [probe EXCEPT !.step = 1,
                            !.nx = normalize_config(probe.x, probe.d),
                            !.ny = normalize_config(probe.y, probe.d)]
  /\ UNCHANGED mainvars

\* normalize_config(normalize_config(x, d), d)
ApplyNormalizeAgain ==
  /\ probe.step = 1
  /\ probe.nx.ok
  /\ probe' = [probe EXCEPT !.step = 2,
                            !.nnx = normalize_config(probe.nx.config, probe.d)]
  /\ UNCHANGED mainvars

\* fingerprint_config(x) and fingerprint_config(y)
ApplyFingerprint ==
  /\ probe.step = 2
  /\ probe' = [probe EXCEPT !.step = 3,
                            !.fx = fingerprint_config(probe.x),
                            !.fy = fingerprint_config(probe.y)]
  /\ UNCHANGED mainvars

\* get_identity_fields and fingerprint_config of the two normalized configs
ApplyFingerprintNormalized ==
  /\ probe.step = 3
  /\ probe.ny.ok
  /\ probe' = [probe EXCEPT !.step = 4,
                            !.ix = get_identity_fields(probe.nx.config),
                            !.iy = get_identity_fields(probe.ny.config),
                            !.fnx = fingerprint_config(probe.nx.config),
                            !.fny = fingerprint_config(probe.ny.config)]
  /\ UNCHANGED mainvars

FnNext ==
  \/ ApplyNormalize
  \/ ApplyNormalizeAgain
  \/ ApplyFingerprint
  \/ ApplyFingerprintNormalized

FnSpec == FnInit /\ [][FnNext]_vars

\* The edit puts, deletes or changes a non-deterministic field.
NoiseEdit ==
  /\ probe.edit.op \in {"put", "del"}
  /\ probe.edit.f \in NON_DETERMINISTIC_FIELDS

\* C5 (fingerprint stability): with a non-deterministic field added, removed
\* or changed, the fingerprint is the same, directly and after
\* normalize_config.
C5_FingerprintStable ==
  NoiseEdit =>
    /\ probe.step >= 3 => probe.fy = probe.fx
    /\ probe.step >= 4 => probe.fny = probe.fnx

\* C5, witness: a non-deterministic field that x lacks was added with a value,
\* and all four fingerprints are taken.
C5_Witness ==
  /\ NoiseEdit
  /\ probe.edit.op = "put"
  /\ probe.edit.v = VStr(s_r2)
  /\ ~Has(probe.x, probe.edit.f)
  /\ probe.step = 4

\* The edit gives server or port, which x holds, another value.
IdentityEdit ==
  /\ probe.edit.op = "put"
  /\ probe.edit.f \in {k_server, k_port}
  /\ Has(probe.x, probe.edit.f)
  /\ Get(probe.x, probe.edit.f) # probe.edit.v

\* Two values that the normalizer retains and keeps apart: neither is None or
\* the empty string, and they are not two spellings of one UUID.
KeptApart(a, b) ==
  /\ a \notin {VNone, VStr(<<>>)}
  /\ b \notin {VNone, VStr(<<>>)}
  /\ ~(a.t = "str" /\ b.t = "str" /\ IsUUID(a.s) /\ Lower(a.s) = Lower(b.s))

\* No two keys of the config are equal when lower-cased.
CaseDistinctKeys(items) ==
  \A i, j \in 1..Len(items) : Lower(items[i].k) = Lower(items[j].k) => i = j

C7_NormalizeIdempotent ==
  probe.step >= 2 => probe.nnx = probe.nx

\* The edit permutes the keys, re-cases them, or both.
ReorderEdit == probe.edit.op \in ReorderOps

IndicatesTLS(c) == Get(c, k_security) = VStr(s_tls) \/ Get(c, k_tls) = VStr(s_tls)

\* The identity fields of a config by the table of its protocol; the table
\* of vless and vmess is taken with security or without it.
IdentityTable(c, withSecurity) ==
  LET protocol == Get(c, k_protocol) IN
  {k_server, k_port}
  \cup (IF protocol \in {VStr(s_vless), VStr(s_vmess)} THEN
          {k_uuid, k_type}
          \cup (IF withSecurity THEN {k_security} ELSE {})
          \cup (IF Get(c, k_type) \in {VStr(s_ws), VStr(s_grpc), VStr(s_http)}
                THEN {k_host, k_path} ELSE {})
          \cup (IF IndicatesTLS(c) THEN {k_sni} ELSE {})
        ELSE IF protocol = VStr(s_trojan) THEN {k_password, k_sni}
        ELSE IF protocol = VStr(s_ss) THEN {k_method, k_password, k_plugin}
        ELSE IF protocol = VStr(s_ssr) THEN {k_method, k_password, k_protocol_ssr, k_obfs}
        ELSE IF protocol \in {VStr(s_hy2), VStr(s_tuic)} THEN {k_password, k_sni, k_insecure}
        ELSE {})

\* The value of an identity field: the insecure flag is allowinsecure when
\* insecure is absent.
IdentityValue(c, f) ==
  IF f = k_insecure THEN GetOr(c, k_insecure, Get(c, k_allowinsecure)) ELSE Get(c, f)

\* Two configs of one protocol with the same identity fields, which agree on
\* each of them.
AgreeOnIdentity(a, b, withSecurity) ==
  /\ Get(a, k_protocol) = Get(b, k_protocol)
  /\ IdentityTable(a, withSecurity) = IdentityTable(b, withSecurity)
  /\ \A f \in IdentityTable(a, withSecurity) : IdentityValue(a, f) = IdentityValue(b, f)

Recognized(c) ==
  Get(c, k_protocol) \in {VStr(s_vless), VStr(s_vmess), VStr(s_trojan), VStr(s_ss),
                          VStr(s_ssr), VStr(s_hy2), VStr(s_tuic)}

\* C10 (identity projection), amended: the table of vless and vmess holds
\* security too.  Two normalized configs of one protocol that agree on every
\* identity field have equal fingerprints; no identity field is stored as
\* None; the identity of an unrecognized protocol is server and port only.
C10_IdentityDecides ==
  probe.step >= 4 =>
    /\ AgreeOnIdentity(probe.nx.config, probe.ny.config, TRUE) => probe.fny = probe.fnx
    /\ \A i \in 1..Len(probe.ix) : probe.ix[i].v # VNone
    /\ Recognized(probe.nx.config) \/ KeySet(probe.ix) \subseteq {k_server, k_port}

\* C10, witness: two different normalized vless configs agree on every
\* identity field, and their fingerprints are taken.
C10_Witness ==
  /\ probe.step = 4
  /\ Get(probe.nx.config, k_protocol) = VStr(s_vless)
  /\ probe.ny.config # probe.nx.config
  /\ AgreeOnIdentity(probe.nx.config, probe.ny.config, TRUE)

\* C10 as the claim states it, with the table of the claim: server, port,
\* uuid and type, host and path for ws, grpc and http, sni under TLS.
C10_ClaimedTableDecides ==
  probe.step >= 4 =>
    /\ AgreeOnIdentity(probe.nx.config, probe.ny.config, FALSE) => probe.fny = probe.fnx
    /\ \A i \in 1..Len(probe.ix) : probe.ix[i].v # VNone
    /\ Recognized(probe.nx.config) \/ KeySet(probe.ix) \subseteq {k_server, k_port}

(***************************************************************************)
(* The ss branch of the parser: SsSpec draws a method, a password, a host  *)
(* and a port, and parses the three encodings of them.                     *)
(***************************************************************************)
s_aes == Str(<<"a", "e", "s", "-", "2", "5", "6", "-", "g", "c", "m">>)
s_pass == Str(<<"p", "a", "s", "s">>)
s_A1k == Str(<<"A", "1", "k">>)
s_ip == Str(<<"1", ".", "2", ".", "3", ".", "4">>)
s_8388 == Str(<<"8", "3", "8", "8">>)
s_1 == Str(<<"1">>)
s_a == Str(<<"a">>)
s_b == Str(<<"b">>)

SsMethods == {s_aes, s_a}
SsPasswords == {s_pass, s_b, s_A1k}
SsHosts == {s_ip, s_h}
SsPorts == {s_8388, s_1}
SsEncodings == {"cleartext", "userinfo_base64", "whole_base64"}

\* The three encodings of method:password@host:port.
SsLink(e, method, password, host, pt) ==
  CASE e = "cleartext" ->
         s_ss_prefix \o method \o <<58>> \o password \o <<64>> \o host \o <<58>> \o pt
    [] e = "userinfo_base64" ->
         s_ss_prefix \o b64encode(encode_utf8(method \o <<58>> \o password))
         \o <<64>> \o host \o <<58>> \o pt
    [] OTHER ->
         s_ss_prefix
         \o b64encode(encode_utf8(method \o <<58>> \o password \o <<64>> \o host \o <<58>> \o pt))

\* What becomes of a link: whether it parses, its normalized config and its
\* fingerprint.
SsFailed == [ok |-> FALSE, config |-> <<>>, fingerprint |-> sha256_hexdigest(<<>>)]

SsNormalized(n) ==
  IF ~n.ok THEN SsFailed
  ELSE [ok |-> TRUE, config |-> n.config, fingerprint |-> fingerprint_config(n.config)]

SsParsed(parsed) ==
  IF ~parsed.ok THEN SsFailed ELSE SsNormalized(normalize_config(parsed.config, VDict(<<>>)))

SsProbes ==
  { [method |-> m, password |-> pw, host |-> h, port |-> p, done |-> {},
     result |-> [e \in SsEncodings |-> SsFailed]] :
      m \in SsMethods, pw \in SsPasswords, h \in SsHosts, p \in SsPorts }

SsInit == Idle /\ probe \in SsProbes

ParseEncoding(e) ==
  /\ e \notin probe.done
  /\ probe' = [probe EXCEPT
       !.done = @ \cup {e},
       !.result[e] = SsParsed(parse_proxy_link(
                        SsLink(e, probe.method, probe.password, probe.host, probe.port)))]
  /\ UNCHANGED mainvars

ParseCleartext == ParseEncoding("cleartext")
ParseUserinfoBase64 == ParseEncoding("userinfo_base64")
ParseWholeBase64 == ParseEncoding("whole_base64")

SsNext ==
  \/ ParseCleartext
  \/ ParseUserinfoBase64
  \/ ParseWholeBase64

SsSpec == SsInit /\ [][SsNext]_vars

\* C9 (ss encoding equivalence), as the claim states it: the three
\* encodings of one method, password, host and port all parse, to the same
\* normalized config of that method, password, server and port, with the
\* same fingerprint.
C9_SsEncodingsAgree ==
  probe.done = SsEncodings =>
    \A e \in SsEncodings :
      /\ probe.result[e].ok
      /\ probe.result[e] = probe.result["cleartext"]
      /\ Get(probe.result[e].config, k_method) = VStr(probe.method)
      /\ Get(probe.result[e].config, k_password) = VStr(probe.password)
      /\ Get(probe.result[e].config, k_server) = VStr(probe.host)
      /\ Get(probe.result[e].config, k_port) = VInt(DigitsValue(probe.port, 0))

=============================================================================
